---- MODULE Spec2Model ----
(***************************************************************************)
(* The chain-of-thought logger of deep_research_agent                      *)
(* (utils/chain_of_thought.py): the in-memory entry list, its capacity     *)
(* trimming, the JSON log file it rewrites on every step, and the loader   *)
(* that rebuilds entries from that file.                                   *)
(***************************************************************************)
EXTENDS Integers, Sequences, FiniteSets, TLC

VARIABLES
    files,               \* path -> content of the JSON file at that path
    log_file,            \* self.log_file: the path the logger owns
    max_entries,         \* self.max_entries
    entries,             \* self.entries
    current_session_id,  \* self.current_session_id
    now,                 \* the reading of datetime.now()
    ret,                 \* what the last call did: operation, result, exception
    hist,                \* the log_step calls made on a logger that started empty
    faults_left,         \* I/O errors the file system may still answer with
    messages             \* ShortTermMemory's self.messages

vars ==
    <<files, log_file, max_entries, entries, current_session_id, now, ret, hist,
      faults_left, messages>>

(***************************************************************************)
(* Bounds of the model.                                                    *)
(***************************************************************************)
MaxCap == 2        \* largest max_entries handed to the constructor
MaxSteps == 3      \* log_step calls followed from an empty log
MaxOver == 1       \* entries a logger is followed beyond its max_entries
MaxFaults == 1     \* I/O errors the file system answers with
MaxClock == 1      \* times the clock moves on
MaxFileLen == 3    \* entries of a log file left by an earlier run
MaxRawLen == 5     \* entries of a hand-made log file given to the loader
MaxOdd == 2        \* entries of such a file that are not as to_dict writes them
MaxHeld == 3       \* max_entries of the logger whose sessions are asked for
MaxShapeLen == 3   \* entries of a log file whose top-level shape varies
MaxLimit == 2      \* largest limit handed to get_entries
MaxMessages == 3   \* max_messages of the short-term memory
MaxRuns == 1       \* start_research calls followed on one manager

(***************************************************************************)
(* Python values.                                                          *)
(***************************************************************************)
None == "None"
NoKey == "<no key>"          \* a key a dict does not hold

Min(a, b) == IF a < b THEN a ELSE b
Max(a, b) == IF a > b THEN a ELSE b

\* s[k:] for k >= 0 on a list
DropFirst(s, k) == SubSeq(s, Min(k, Len(s)) + 1, Len(s))

\* s[-n:] as Python evaluates it: -0 is 0, so n = 0 selects the whole list
PySliceLast(s, n) ==
    IF n > 0 THEN DropFirst(s, Max(Len(s) - n, 0))
    ELSE DropFirst(s, -n)

\* class LogLevel(Enum): member names and their values
LogLevelMembers == {"DEBUG", "INFO", "WARNING", "ERROR", "CRITICAL"}

LevelValue(l) ==
    CASE l = "DEBUG" -> "debug"
      [] l = "INFO" -> "info"
      [] l = "WARNING" -> "warning"
      [] l = "ERROR" -> "error"
      [] l = "CRITICAL" -> "critical"

LogLevelValues == {LevelValue(l) : l \in LogLevelMembers}

\* LogLevel(value): the member with that value; ValueError when there is none
LogLevel(v) ==
    IF v \in LogLevelValues
    THEN CHOOSE l \in LogLevelMembers : LevelValue(l) = v
    ELSE "ValueError"

(***************************************************************************)
(* Opaque values (results, metadata values) by the way json treats them.   *)
(***************************************************************************)
PyValues == {"str", "list", "tuple", "set"}

\* json.dump raises TypeError on a value it has no encoding for
JsonSerializable(v) == v # "set"

\* what json.load returns for what json.dump wrote: a tuple comes back a list
JsonValue(v) == IF v = "tuple" THEN "list" ELSE v

(***************************************************************************)
(* ToolCall: the dataclass, and the dict asdict() makes of it.             *)
(***************************************************************************)
ToolCallKeys ==
    {"tool_name", "query", "parameters", "results", "execution_time",
     "success", "error_message"}
ToolCallRequired == ToolCallKeys \ {"error_message"}

\* ToolCall(**tool_data) accepts exactly the dataclass fields; error_message defaults
ToolCallAccepts(d) ==
    /\ d.keys \subseteq ToolCallKeys
    /\ ToolCallRequired \subseteq d.keys

ToolCall(d) ==
    [tool_name |-> d.tool_name, query |-> d.query, parameters |-> d.parameters,
     results |-> d.results, execution_time |-> d.execution_time,
     success |-> d.success,
     error_message |-> IF "error_message" \in d.keys THEN d.error_message ELSE None]

asdict(tc) ==
    [tool_name |-> tc.tool_name, query |-> tc.query, parameters |-> tc.parameters,
     results |-> tc.results, execution_time |-> tc.execution_time,
     success |-> tc.success, error_message |-> tc.error_message,
     keys |-> ToolCallKeys]

(***************************************************************************)
(* ChainOfThoughtEntry and its dict form.                                  *)
(***************************************************************************)
EntryKeys ==
    {"timestamp", "agent", "step_id", "input_prompt", "tool_calls",
     "llm_response", "decision", "reasoning", "confidence", "level", "metadata"}

\* the keys _load_logs reads with entry_data[...]; tool_calls is read with .get
EntryRequired == EntryKeys \ {"tool_calls"}

to_dict(e) ==
    [timestamp |-> e.timestamp, agent |-> e.agent, step_id |-> e.step_id,
     input_prompt |-> e.input_prompt,
     tool_calls |-> [i \in 1..Len(e.tool_calls) |-> asdict(e.tool_calls[i])],
     llm_response |-> e.llm_response, decision |-> e.decision,
     reasoning |-> e.reasoning, confidence |-> e.confidence,
     level |-> LevelValue(e.level), metadata |-> e.metadata,
     shape |-> "object", keys |-> EntryKeys]

\* json.dump can encode the dict of this entry
EntrySerializable(e) ==
    /\ JsonSerializable(e.metadata.topic)
    /\ \A i \in 1..Len(e.tool_calls) : JsonSerializable(e.tool_calls[i].results)

\* the JSON object json.dump writes for a dict made by to_dict
JsonObject(d) ==
    [d EXCEPT
        !.metadata = [@ EXCEPT !.topic = JsonValue(@)],
        !.tool_calls =
            [i \in 1..Len(d.tool_calls) |->
                [d.tool_calls[i] EXCEPT !.results = JsonValue(@)]]]

(***************************************************************************)
(* The log file.                                                           *)
(***************************************************************************)
LogPath == "logs/chain_of_thought.json"   \* the default log_file
OtherPath == "exports/session.json"       \* some other path handed to export_to_json
Paths == {LogPath, OtherPath}

NoFile ==
    [kind |-> "absent", session_id |-> None, stamp_key |-> None,
     total_entries |-> 0, entries |-> <<>>]

\* what open(path, 'w') leaves when the dump after it does not finish:
\* a prefix of the document, which json.load rejects
TruncatedFile == [NoFile EXCEPT !.kind = "truncated"]

\* a document holding only the newest entry: the delta instead of the full log
JsonDocumentOfLast(sid, stamp_key, es) ==
    [kind |-> "object", session_id |-> sid, stamp_key |-> stamp_key,
     total_entries |-> Min(Len(es), 1),
     entries |-> [i \in 1..Min(Len(es), 1) |-> JsonObject(to_dict(es[Len(es)]))]]

\* the document _save_logs and export_to_json build and json.dump writes
\* (the value of the time stamp is left out: nothing reads it back)
JsonDocument(sid, stamp_key, es) ==
    [kind |-> "object", session_id |-> sid, stamp_key |-> stamp_key,
     total_entries |-> Len(es),
     entries |-> [i \in 1..Len(es) |-> JsonObject(to_dict(es[i]))]]

IoOutcomes == {"ok", "open_error", "write_error"}

\* with open(path, 'w') as f: json.dump(data, f): open truncates the file, the
\* dump writes chunk by chunk and stops at the first value it cannot encode
WriteJson(before, doc, es, io) ==
    IF io = "open_error"
    THEN [content |-> before, error |-> "OSError", opened |-> FALSE]
    ELSE IF \E i \in 1..Len(es) : ~EntrySerializable(es[i])
    THEN [content |-> TruncatedFile, error |-> "TypeError", opened |-> TRUE]
    ELSE IF io = "write_error"
    THEN [content |-> TruncatedFile, error |-> "OSError", opened |-> TRUE]
    ELSE [content |-> doc, error |-> None, opened |-> TRUE]

\* a handler narrowed to I/O errors: except OSError
CatchesOSErrorOnly(error) == error = "OSError"

\* except Exception as e: print(...): OSError and TypeError are Exceptions
SaveCatches(error) == error \in {"OSError", "TypeError", "AttributeError", "ValueError"}

\* _save_logs: the file afterwards, whether the write went through, what escapes
SaveLogs(before, es, sid, io) ==
    LET w == WriteJson(before, JsonDocument(sid, "saved_at", es), es, io)
    IN  [content |-> w.content,
         save |-> IF w.error = None THEN "ok"
                  ELSE IF w.opened THEN "failed_mid_write"
                  ELSE "failed_before_write",
         caught |-> IF SaveCatches(w.error) THEN w.error ELSE None,
         raised |-> IF w.error = None \/ SaveCatches(w.error) THEN None ELSE w.error]

(***************************************************************************)
(* _load_logs.                                                             *)
(***************************************************************************)
\* the kinds of file _load_logs meets besides the document _save_logs writes
\* ("object"), a file that is not there ("absent") and one cut short
\* ("truncated"): a bare array, text that is no JSON, a scalar, an object with no
\* "entries" key, and an object whose "entries" is a string, a number, null or
\* an object
SliceRaisingKinds ==
    {"object_entries_number", "object_entries_null", "object_entries_object"}

\* the exception the outer try ends with: json.load on text that is no JSON
\* document, or entries_data[-n:] on a value that cannot be sliced
LoadError(file) ==
    CASE file.kind \in {"truncated", "unparseable"} -> "JSONDecodeError"
      [] file.kind \in SliceRaisingKinds -> "TypeError"
      [] OTHER -> None

\* a handler narrowed to the parse error: except json.JSONDecodeError
LoadCatchesDecodeErrorOnly(error) == error = "JSONDecodeError"

\* except Exception as e: print(...)
LoadCatches(error) == error \in {"JSONDecodeError", "TypeError", "OSError"}

\* only the wrapper object is looked into: a bare array counts as unknown
EntriesDataWrapperOnly(file) ==
    CASE file.kind \in {"object", "object_entries_string"} -> file.entries
      [] OTHER -> <<>>

\* the elements the for loop would go through before slicing: data["entries"] of a
\* dict that has the key (the characters, when it is a string), data itself when
\* it is a list, [] otherwise; nothing when the outer try ends in an exception
EntriesData(file) ==
    CASE file.kind \in {"object", "object_entries_string"} -> file.entries
      [] file.kind = "array" -> file.entries
      [] file.kind \in {"scalar", "object_no_entries"} -> <<>>
      [] OTHER -> <<>>

\* the inner try: one raw entry becomes a ChainOfThoughtEntry, or raises
EntryLoads(raw) ==
    /\ raw.shape = "object"
    /\ \A i \in 1..Len(raw.tool_calls) : ToolCallAccepts(raw.tool_calls[i])
    /\ EntryRequired \subseteq raw.keys
    /\ LogLevel(raw.level) # "ValueError"

\* FromDict without the LogLevel(...) coercion: the level stays a string
FromDictLevelString(raw) ==
    [timestamp |-> raw.timestamp, agent |-> raw.agent, step_id |-> raw.step_id,
     input_prompt |-> raw.input_prompt,
     tool_calls |->
        IF "tool_calls" \in raw.keys
        THEN [i \in 1..Len(raw.tool_calls) |-> ToolCall(raw.tool_calls[i])]
        ELSE <<>>,
     llm_response |-> raw.llm_response, decision |-> raw.decision,
     reasoning |-> raw.reasoning, confidence |-> raw.confidence,
     level |-> raw.level, metadata |-> raw.metadata]

FromDict(raw) ==
    [timestamp |-> raw.timestamp, agent |-> raw.agent, step_id |-> raw.step_id,
     input_prompt |-> raw.input_prompt,
     tool_calls |->
        IF "tool_calls" \in raw.keys
        THEN [i \in 1..Len(raw.tool_calls) |-> ToolCall(raw.tool_calls[i])]
        ELSE <<>>,
     llm_response |-> raw.llm_response, decision |-> raw.decision,
     reasoning |-> raw.reasoning, confidence |-> raw.confidence,
     level |-> LogLevel(raw.level), metadata |-> raw.metadata]

\* for entry_data in entries_data[-self.max_entries:]: try ... except: continue
LoadWindow(file, m) == PySliceLast(EntriesData(file), m)

\* the loader with the outer try only: the first entry that raises ends the load
LoadLogsOneTry(file, m) ==
    LET w == LoadWindow(file, m)
        bad == {i \in 1..Len(w) : ~EntryLoads(w[i])}
        n == IF bad = {} THEN Len(w) ELSE (CHOOSE i \in bad : \A j \in bad : i <= j) - 1
    IN  [i \in 1..n |-> FromDict(w[i])]

LoadLogs(file, m) ==
    LET kept == SelectSeq(LoadWindow(file, m), EntryLoads)
    IN  [i \in 1..Len(kept) |-> FromDict(kept[i])]

\* _generate_session_id: the clock reading, formatted
GenerateSessionId(t) == "session_" \o ToString(t)

(***************************************************************************)
(* log_step.                                                               *)
(***************************************************************************)
NoMetadata == [type |-> "None", session_id |-> NoKey, topic |-> NoKey]

\* {"session_id": self.current_session_id, **(metadata or {})}: in a dict display
\* a later key replaces an earlier one
MergeMetadata(sid, md) ==
    [type |-> "dict",
     session_id |-> IF md.session_id # NoKey THEN md.session_id ELSE sid,
     topic |-> md.topic]

\* step_id = f"{agent}_{datetime.now().timestamp()}"
StepId(agent, t) == agent \o "_" \o ToString(t)

NewEntry(a, sid, t) ==
    [timestamp |-> t, agent |-> a.agent, step_id |-> StepId(a.agent, t),
     input_prompt |-> a.input_prompt, tool_calls |-> a.tool_calls,
     llm_response |-> a.llm_response, decision |-> a.decision,
     reasoning |-> a.reasoning, confidence |-> a.confidence, level |-> a.level,
     metadata |-> MergeMetadata(sid, a.metadata)]

\* Trim with the bound off by one: one entry too many is kept
TrimKeepsOneMore(es, m) == IF Len(es) > m + 1 THEN PySliceLast(es, m + 1) ELSE es

\* Trim slicing from the front, entries[:max_entries]: the newest are dropped
TrimKeepsOldest(es, m) == IF Len(es) > m THEN SubSeq(es, 1, m) ELSE es

\* if len(self.entries) > self.max_entries: self.entries = self.entries[-self.max_entries:]
Trim(es, m) == IF Len(es) > m THEN PySliceLast(es, m) ELSE es

\* self.entries after log_step's append and trim
Logged(es, e, m) == Trim(Append(es, e), m)

(***************************************************************************)
(* Queries.                                                                *)
(***************************************************************************)
\* e.metadata.get("session_id"): None when the dict lacks the key
MetadataGet(e) == IF e.metadata.session_id = NoKey THEN None ELSE e.metadata.session_id

\* the operands of the `or` swapped: the argument is never looked at
TargetSessionCurrent(S, cur) == cur

\* session_id or self.current_session_id
TargetSession(S, cur) == IF S = None \/ S = "" THEN cur ELSE S

\* get_session_entries: .get on a metadata that is no dict raises AttributeError
GetSessionEntries(es, S, cur) ==
    IF \E i \in 1..Len(es) : es[i].metadata.type # "dict"
    THEN [raised |-> "AttributeError", value |-> <<>>]
    ELSE [raised |-> None,
          value |-> SelectSeq(es, LAMBDA e : MetadataGet(e) = TargetSession(S, cur))]

\* get_entries' limit argument: not given (None), or an integer
NoLimit == [given |-> FALSE, value |-> 0]

\* `if limit:` is false for None and for 0
LimitApplies(limit) == limit.given /\ limit.value # 0

\* get_entries: `if agent:`, `if level:` (a LogLevel member is always true),
\* `if limit:`; each filter narrows the list the one before left
GetEntries(es, agent, level, limit) ==
    LET by_agent == IF agent = None \/ agent = "" THEN es
                    ELSE SelectSeq(es, LAMBDA e : e.agent = agent)
        by_level == IF level = None THEN by_agent
                    ELSE SelectSeq(by_agent, LAMBDA e : e.level = level)
    IN  IF LimitApplies(limit) THEN PySliceLast(by_level, limit.value) ELSE by_level

\* the characters of the strings the model's calls are made with
Spelling(s) ==
    CASE s = "Create plan" -> <<"C", "r", "e", "a", "t", "e", " ", "p", "l", "a", "n">>
      [] s = "on topic" -> <<"o", "n", " ", "t", "o", "p", "i", "c">>
      [] s = "TOPIC ok" -> <<"T", "O", "P", "I", "C", " ", "o", "k">>
      [] s = "Sum up" -> <<"S", "u", "m", " ", "u", "p">>
      [] s = "topic wide" -> <<"t", "o", "p", "i", "c", " ", "w", "i", "d", "e">>
      [] s = "Topic" -> <<"T", "o", "p", "i", "c">>
      [] s = "plan" -> <<"p", "l", "a", "n">>
      [] s = "SUM" -> <<"S", "U", "M">>
      [] s = "Planner" -> <<"P", "l", "a", "n", "n", "e", "r">>
      [] s = "Researcher" -> <<"R", "e", "s", "e", "a", "r", "c", "h", "e", "r">>
      [] s = "Writer" -> <<"W", "r", "i", "t", "e", "r">>
      [] s = "" -> <<>>

UpperCase == <<"A", "B", "C", "D", "E", "F", "G", "H", "I", "J", "K", "L", "M", "N", "O", "P", "Q", "R", "S", "T", "U", "V", "W", "X", "Y", "Z">>
LowerCase == <<"a", "b", "c", "d", "e", "f", "g", "h", "i", "j", "k", "l", "m", "n", "o", "p", "q", "r", "s", "t", "u", "v", "w", "x", "y", "z">>

\* str.lower(), character by character
LowerChar(c) ==
    IF \E i \in 1..Len(UpperCase) : UpperCase[i] = c
    THEN LowerCase[CHOOSE i \in 1..Len(UpperCase) : UpperCase[i] = c]
    ELSE c

lower(s) == [i \in 1..Len(s) |-> LowerChar(s[i])]

\* `t in s` on two strings: t occurs in s as a contiguous run
Contains(s, t) == \E i \in 0..(Len(s) - Len(t)) : SubSeq(s, i + 1, i + Len(t)) = t

\* the search without the two .lower() calls
TopicInText(topic, text) == Contains(Spelling(text), Spelling(topic))

\* topic_lower in e.<field>.lower()
TopicLowerIn(topic, text) == Contains(lower(Spelling(text)), lower(Spelling(topic)))

\* the case-sensitive search
GetReasoningChainCaseSensitive(es, topic) ==
    SelectSeq(es, LAMBDA e :
        \/ TopicInText(topic, e.input_prompt)
        \/ TopicInText(topic, e.reasoning)
        \/ TopicInText(topic, e.decision))

GetReasoningChain(es, topic) ==
    SelectSeq(es, LAMBDA e :
        \/ TopicLowerIn(topic, e.input_prompt)
        \/ TopicLowerIn(topic, e.reasoning)
        \/ TopicLowerIn(topic, e.decision))

(***************************************************************************)
(* create_summary.  Confidences are counted in hundredths; timestamps in   *)
(* whole seconds.                                                          *)
(***************************************************************************)
\* _calculate_time_span: timedelta keeps days and the seconds left within the day
CalculateTimeSpan(es) ==
    IF es = <<>> THEN [n |-> 0, unit |-> "seconds"]
    ELSE LET delta == es[Len(es)].timestamp - es[1].timestamp
             days == delta \div 86400
             seconds == delta % 86400
         IN  IF days > 0 THEN [n |-> days, unit |-> "days"]
             ELSE IF seconds > 3600 THEN [n |-> seconds \div 3600, unit |-> "hours"]
             ELSE IF seconds > 60 THEN [n |-> seconds \div 60, unit |-> "minutes"]
             ELSE [n |-> seconds, unit |-> "seconds"]

\* the whole log summarized whatever the session asked for
SummaryEntriesOfWholeLog(es, S, cur) == [raised |-> None, value |-> es]

\* self.get_session_entries(session_id) if session_id else self.entries
SummaryEntries(es, S, cur) ==
    IF S = None \/ S = "" THEN [raised |-> None, value |-> es]
    ELSE GetSessionEntries(es, S, cur)

\* sum(e.confidence for e in entries)
RECURSIVE TotalConfidence(_)
TotalConfidence(es) ==
    IF es = <<>> THEN 0 ELSE Head(es).confidence + TotalConfidence(Tail(es))

\* the quotient cut off after two decimals instead of rounded
Truncate2(total, n) == {total \div n}

\* round(total / n, 2) in hundredths: the hundredth nearest to the quotient.
\* When the quotient lies midway between two hundredths, the double that
\* holds it lies on one side or the other (round(0.705, 2) is 0.7,
\* round(0.025, 2) is 0.03), so both neighbours are outcomes.
Round2(total, n) ==
    {r \in (total \div n)..((total \div n) + 1) :
        /\ 2 * (r * n - total) <= n
        /\ 2 * (total - r * n) <= n}

\* the values average_confidence can take for these entries
AverageConfidence(es) ==
    IF es = <<>> THEN {0} ELSE Round2(TotalConfidence(es), Len(es))

\* the threshold met from 0.7 on
KeyDecisionsFromThreshold(es) ==
    LET key == SelectSeq(es, LAMBDA e : e.decision # "" /\ e.confidence >= 70)
    IN  [i \in 1..Len(key) |->
            [agent |-> key[i].agent, decision |-> key[i].decision,
             confidence |-> key[i].confidence, timestamp |-> key[i].timestamp]]

\* for e in entries if e.decision and e.confidence > 0.7
KeyDecisions(es) ==
    LET key == SelectSeq(es, LAMBDA e : e.decision # "" /\ e.confidence > 70)
    IN  [i \in 1..Len(key) |->
            [agent |-> key[i].agent, decision |-> key[i].decision,
             confidence |-> key[i].confidence, timestamp |-> key[i].timestamp]]

\* level_counts: each level value that occurs, with the number of its entries
LevelCounts(es) ==
    [v \in {LevelValue(es[i].level) : i \in 1..Len(es)} |->
        Cardinality({i \in 1..Len(es) : LevelValue(es[i].level) = v})]

EmptySummaryKeys ==
    {"summary", "total_steps", "agents_involved", "tools_used", "average_confidence"}
SummaryKeys ==
    EmptySummaryKeys \cup {"level_distribution", "key_decisions", "session_id",
                           "time_span"}

\* the dict create_summary returns when there is nothing to summarize; the
\* keys it does not hold are filled with NoKey and empty values
EmptySummary ==
    [keys |-> EmptySummaryKeys,
     summary |-> [text |-> "No reasoning steps recorded", steps |-> 0, agents |-> 0],
     total_steps |-> 0, agents_involved |-> {}, tools_used |-> {},
     average_confidence |-> 0, level_distribution |-> <<>>, key_decisions |-> <<>>,
     session_id |-> NoKey, time_span |-> [n |-> 0, unit |-> NoKey]]

\* create_summary over the entries selected, average being the rounded mean
CreateSummary(es, S, cur, average) ==
    IF es = <<>> THEN EmptySummary
    ELSE LET agents_involved == {es[i].agent : i \in 1..Len(es)}
         IN  [keys |-> SummaryKeys,
              summary |-> [text |-> "Reasoning process with {} steps across {} agents",
                           steps |-> Len(es), agents |-> Cardinality(agents_involved)],
              total_steps |-> Len(es),
              agents_involved |-> agents_involved,
              tools_used |-> UNION {{es[i].tool_calls[j].tool_name :
                                       j \in 1..Len(es[i].tool_calls)} :
                                    i \in 1..Len(es)},
              average_confidence |-> average,
              level_distribution |-> LevelCounts(es),
              key_decisions |-> KeyDecisions(es),
              session_id |-> TargetSession(S, cur),
              time_span |-> CalculateTimeSpan(es)]

(***************************************************************************)
(* The callers' inputs.                                                    *)
(***************************************************************************)
SearchCall(name, results) ==
    [tool_name |-> name, query |-> "section topic", parameters |-> "dict",
     results |-> results, execution_time |-> 0, success |-> TRUE,
     error_message |-> None]

CallerSession == "session_of_caller"   \* a session_id key inside the metadata argument
PriorSession == "session_prior"        \* the session of an earlier process

DefaultArgs ==
    [agent |-> "Planner", input_prompt |-> "Create plan", tool_calls |-> <<>>,
     llm_response |-> "", decision |-> "", reasoning |-> "", confidence |-> 100,
     level |-> "INFO", metadata |-> NoMetadata]

\* log_step's arguments: the defaults; a step with a tool call whose results are a
\* tuple; an out-of-range confidence, a tool call, and a session_id among the
\* metadata; a metadata value json cannot encode
TupleArgs ==
    [DefaultArgs EXCEPT !.agent = "Researcher",
        !.tool_calls = <<SearchCall("web_search", "tuple")>>,
        !.decision = "Data sufficient", !.confidence = 85,
        !.metadata = [type |-> "dict", session_id |-> NoKey, topic |-> "str"]]

CallerArgs ==
    [DefaultArgs EXCEPT !.confidence = 150, !.level = "ERROR",
        !.tool_calls = <<SearchCall("academic_search", "list")>>,
        !.metadata = [type |-> "dict", session_id |-> CallerSession, topic |-> "list"]]

UnencodableArgs ==
    [DefaultArgs EXCEPT !.agent = "Writer",
        !.metadata = [type |-> "dict", session_id |-> NoKey, topic |-> "set"]]

LogArgs == {DefaultArgs, TupleArgs, CallerArgs, UnencodableArgs}

\* the entries an earlier process logged, and the file its last save left
PriorEntries(k) ==
    [i \in 1..k |->
        NewEntry([DefaultArgs EXCEPT !.input_prompt = "Prior step " \o ToString(i)],
                 PriorSession, i - MaxFileLen - 1)]

PriorFile(k) == JsonDocument(PriorSession, "saved_at", PriorEntries(k))

InitFiles == {NoFile} \cup {PriorFile(k) : k \in 1..MaxFileLen}

\* the arguments of a query, for the calls that take more than a session id
NoQuery == [agent |-> None, level |-> None, limit |-> NoLimit, topic |-> None]

\* no summary returned
NoSummary == [EmptySummary EXCEPT !.keys = {}, !.summary.text = None]

NoResult ==
    [op |-> "none", arg |-> None, path |-> None, raised |-> None, caught |-> None,
     step_id |-> None, count |-> 0, success |-> None,
     save |-> None, list |-> <<>>, query |-> NoQuery,
     summary |-> NoSummary]

(***************************************************************************)
(* The logger as a state machine.                                          *)
(***************************************************************************)
\* the state ChainOfThoughtLogger(LogPath, m) returns in, over log file f
Constructed(f, m) ==
    /\ now = 0
    /\ log_file = LogPath
    /\ max_entries = m
    /\ files = [p \in Paths |-> IF p = LogPath THEN f ELSE NoFile]
    /\ current_session_id = GenerateSessionId(now)
    /\ entries = LoadLogs(f, m)
    /\ ret = [NoResult EXCEPT !.op = "construct"]

\* hist follows the log_step calls on a logger that started empty, up to MaxSteps
\* of them and until the first clear_logs
NotRecording == [recording |-> FALSE, logged |-> <<>>]

\* __init__: fields set, session id generated, existing logs loaded
Construct(path, m) ==
    /\ log_file' = path
    /\ max_entries' = m
    /\ current_session_id' = GenerateSessionId(now)
    /\ entries' = LoadLogs(files[path], m)
    /\ hist' = NotRecording
    /\ LET error == LoadError(files[path])
       IN  ret' = [NoResult EXCEPT !.op = "construct",
                      !.caught = IF LoadCatches(error) THEN error ELSE None,
                      !.raised = IF error = None \/ LoadCatches(error)
                                 THEN None ELSE error]
    /\ UNCHANGED <<files, now, faults_left, messages>>

\* a logger over the file an earlier process left, or over none; a file system
\* that answers every call
Init ==
    /\ \E f \in InitFiles, m \in 0..MaxCap : Constructed(f, m)
    /\ hist = NotRecording
    /\ faults_left = 0
    /\ messages = <<>>

\* the file system answers a call with `io`
Faulted(io) ==
    /\ io # "ok" => faults_left > 0
    /\ faults_left' = IF io = "ok" THEN faults_left ELSE faults_left - 1

\* the clock moves on between two calls
Tick ==
    /\ now < MaxClock
    /\ now' = now + 1
    /\ UNCHANGED <<files, log_file, max_entries, entries, current_session_id, ret,
                   hist, faults_left, messages>>

LogStep(a, io) ==
    /\ Len(entries) < max_entries + MaxOver
    /\ Faulted(io)
    /\ LET entry == NewEntry(a, current_session_id, now)
           kept == Logged(entries, entry, max_entries)
           saved == SaveLogs(files[log_file], kept, current_session_id, io)
       IN  /\ entries' = kept
           /\ files' = [files EXCEPT ![log_file] = saved.content]
           /\ hist' = IF hist.recording
                      THEN [hist EXCEPT !.logged = Append(@, entry)]
                      ELSE NotRecording
           /\ ret' = [NoResult EXCEPT !.op = "log_step", !.raised = saved.raised,
                         !.caught = saved.caught,
                         !.step_id = entry.step_id, !.save = saved.save]
    /\ UNCHANGED <<log_file, max_entries, current_session_id, now, messages>>

\* the entries that stay handed back newest first
ClearedNewestFirst(es, S) ==
    LET kept == IF S = None \/ S = "" THEN <<>>
                ELSE SelectSeq(es, LAMBDA e : e.metadata.session_id # S)
    IN  [i \in 1..Len(kept) |-> kept[Len(kept) + 1 - i]]

\* every entry removed, whatever the session asked for
ClearedEverything(es, S) == <<>>

\* clear_logs: one session's entries, or all of them; then _save_logs
Cleared(es, S) ==
    IF S = None \/ S = ""
    THEN <<>>
    ELSE SelectSeq(es, LAMBDA e : MetadataGet(e) # S)

\* with a session id, e.metadata.get raises AttributeError on a metadata that is
\* no dict, before anything is assigned or saved
ClearLogs(S, io) ==
    IF S # None /\ S # "" /\ \E i \in 1..Len(entries) : entries[i].metadata.type # "dict"
    THEN /\ io = "ok"
         /\ ret' = [NoResult EXCEPT !.op = "clear_logs", !.arg = S,
                        !.raised = "AttributeError"]
         /\ UNCHANGED <<files, log_file, max_entries, entries, current_session_id,
                        now, hist, faults_left, messages>>
    ELSE /\ Faulted(io)
         /\ LET kept == Cleared(entries, S)
                saved == SaveLogs(files[log_file], kept, current_session_id, io)
            IN  /\ entries' = kept
                /\ files' = [files EXCEPT ![log_file] = saved.content]
                /\ ret' = [NoResult EXCEPT !.op = "clear_logs", !.arg = S,
                              !.raised = saved.raised, !.caught = saved.caught,
                              !.count = Len(entries) - Len(kept),
                              !.save = saved.save]
         /\ hist' = NotRecording
         /\ UNCHANGED <<log_file, max_entries, current_session_id, now, messages>>

StartNewSession ==
    /\ current_session_id' = GenerateSessionId(now)
    /\ ret' = [NoResult EXCEPT !.op = "start_new_session",
                  !.step_id = GenerateSessionId(now)]
    /\ UNCHANGED <<files, log_file, max_entries, entries, now, hist, faults_left, messages>>

GetSessionEntriesCall(S) ==
    /\ LET r == GetSessionEntries(entries, S, current_session_id)
       IN  ret' = [NoResult EXCEPT !.op = "get_session_entries", !.arg = S,
                      !.raised = r.raised, !.list = r.value]
    /\ UNCHANGED <<files, log_file, max_entries, entries, current_session_id, now,
                   hist, faults_left, messages>>

\* the export scoped to a session even when none is asked for
ExportEntriesOfSession(es, S, cur) == GetSessionEntries(es, S, cur)

\* self.get_session_entries(session_id) if session_id else self.entries
ExportEntries(es, S, cur) ==
    IF S = None \/ S = "" THEN [raised |-> None, value |-> es]
    ELSE GetSessionEntries(es, S, cur)

\* export_to_json: the session's entries, or all, written to any path; no try
ExportToJson(path, S, io) ==
    /\ Faulted(io)
    /\ LET got == ExportEntries(entries, S, current_session_id)
           doc == JsonDocument(TargetSession(S, current_session_id), "exported_at",
                               got.value)
           w == WriteJson(files[path], doc, got.value, io)
       IN  IF got.raised # None
           THEN /\ files' = files
                /\ ret' = [NoResult EXCEPT !.op = "export_to_json", !.arg = S,
                              !.path = path, !.raised = got.raised]
           ELSE /\ files' = [files EXCEPT ![path] = w.content]
                /\ ret' = [NoResult EXCEPT !.op = "export_to_json", !.arg = S,
                              !.path = path, !.raised = w.error,
                              !.count = Len(got.value)]
    /\ UNCHANGED <<log_file, max_entries, entries, current_session_id, now, hist, messages>>

\* the session ids a caller asks about: none (the current session), its own,
\* those of the entries held, and one no entry has
QueryArgs ==
    {None, current_session_id, "session_unknown"}
        \cup {MetadataGet(entries[i]) : i \in 1..Len(entries)}

\* a new process constructs its logger over the file the earlier one left
Restart(m) == Construct(log_file, m)

Next ==
    \/ Tick
    \/ \E a \in LogArgs, io \in IoOutcomes : LogStep(a, io)
    \/ \E S \in {None, current_session_id, PriorSession}, io \in IoOutcomes :
          ClearLogs(S, io)
    \/ StartNewSession
    \/ \E m \in 0..MaxCap : Restart(m)

Spec == Init /\ [][Next]_vars

(***************************************************************************)
(* The logger logged to in changing sessions, and asked for a session.     *)
(***************************************************************************)
QueryInit ==
    /\ \E f \in {NoFile, PriorFile(1)} : Constructed(f, MaxHeld)
    /\ hist = NotRecording
    /\ faults_left = 0
    /\ messages = <<>>

QueryNext ==
    \/ Tick
    \/ \E a \in {DefaultArgs, CallerArgs} : LogStep(a, "ok")
    \/ StartNewSession
    \/ \E S \in QueryArgs : GetSessionEntriesCall(S)

QuerySpec == QueryInit /\ [][QueryNext]_vars

(***************************************************************************)
(* Round trips: the log saved or exported, and a fresh logger built over   *)
(* the file written.                                                       *)
(***************************************************************************)
Reopen(path, m) == Construct(path, m)

RoundTripInit ==
    /\ \E m \in 0..MaxCap : Constructed(NoFile, m)
    /\ hist = NotRecording
    /\ faults_left = 0
    /\ messages = <<>>

RoundTripNext ==
    \/ \E a \in LogArgs : LogStep(a, "ok")
    \/ \E S \in {None, current_session_id} : ExportToJson(OtherPath, S, "ok")
    \/ \E path \in Paths, m \in 0..MaxCap : Reopen(path, m)

RoundTripSpec == RoundTripInit /\ [][RoundTripNext]_vars

(***************************************************************************)
(* The loader over hand-made files: entries as to_dict writes them mixed   *)
(* with entries that are not.                                              *)
(***************************************************************************)
RawKinds ==
    {"good", "bad_level", "missing_key", "bad_tool", "no_tool_calls", "not_object"}

RawGood(i) ==
    JsonObject(to_dict(NewEntry(
        [DefaultArgs EXCEPT !.input_prompt = "Step " \o ToString(i),
                            !.tool_calls = <<SearchCall("web_search", "str")>>],
        PriorSession, i)))

RawEntry(i, kind) ==
    CASE kind = "good" -> RawGood(i)
      [] kind = "bad_level" -> [RawGood(i) EXCEPT !.level = "verbose"]
      [] kind = "missing_key" -> [RawGood(i) EXCEPT !.keys = EntryKeys \ {"agent"}]
      [] kind = "bad_tool" ->
            [RawGood(i) EXCEPT !.tool_calls[1].keys = ToolCallKeys \ {"query"}]
      [] kind = "no_tool_calls" ->
            [RawGood(i) EXCEPT !.keys = EntryKeys \ {"tool_calls"},
                               !.tool_calls = <<>>]
      [] kind = "not_object" -> [RawGood(i) EXCEPT !.shape = "string"]

KindSeqs(n) ==
    {ks \in [1..n -> RawKinds] : Cardinality({i \in 1..n : ks[i] # "good"}) <= MaxOdd}

RawFile(ks) ==
    [kind |-> "object", session_id |-> PriorSession, stamp_key |-> "saved_at",
     total_entries |-> Len(ks),
     entries |-> [i \in 1..Len(ks) |-> RawEntry(i, ks[i])]]

RawFiles == {RawFile(ks) : ks \in UNION {KindSeqs(n) : n \in 0..MaxRawLen}}

\* before the constructor runs: the file, and the max_entries it will be given
LoadInit ==
    /\ now = 0
    /\ log_file = LogPath
    /\ max_entries \in 0..MaxRawLen
    /\ \E f \in RawFiles : files = [p \in Paths |-> IF p = LogPath THEN f ELSE NoFile]
    /\ current_session_id = None
    /\ entries = <<>>
    /\ ret = NoResult
    /\ hist = NotRecording
    /\ faults_left = 0
    /\ messages = <<>>

LoadConstruct ==
    /\ ret.op = "none"
    /\ Construct(log_file, max_entries)

LoadSpec == LoadInit /\ [][LoadConstruct]_vars

(***************************************************************************)
(* The logger logged to by two agents at two levels, and asked for entries *)
(* by agent, level and limit.                                              *)
(***************************************************************************)
GetEntriesCall(agent, level, limit) ==
    /\ ret' = [NoResult EXCEPT !.op = "get_entries",
                  !.query = [NoQuery EXCEPT !.agent = agent, !.level = level,
                                            !.limit = limit],
                  !.list = GetEntries(entries, agent, level, limit)]
    /\ UNCHANGED <<files, log_file, max_entries, entries, current_session_id, now,
                   hist, faults_left, messages>>

Limits == {NoLimit} \cup {[given |-> TRUE, value |-> n] : n \in 0..MaxLimit}

EntriesInit ==
    /\ Constructed(NoFile, MaxHeld)
    /\ hist = NotRecording
    /\ faults_left = 0
    /\ messages = <<>>

EntriesNext ==
    \/ \E a \in {DefaultArgs, TupleArgs, CallerArgs} : LogStep(a, "ok")
    \/ \E agent \in {None, "Planner", "Researcher", "Writer"},
          level \in {None, "INFO", "ERROR", "DEBUG"},
          limit \in Limits : GetEntriesCall(agent, level, limit)

EntriesSpec == EntriesInit /\ [][EntriesNext]_vars

(***************************************************************************)
(* The logger logged to with texts that mention a topic in one field or    *)
(* another, and searched for topics.                                       *)
(***************************************************************************)
ReasoningArgs == [DefaultArgs EXCEPT !.agent = "Writer", !.input_prompt = "Sum up",
                                     !.reasoning = "on topic"]
DecisionArgs == [DefaultArgs EXCEPT !.agent = "Researcher", !.input_prompt = "Sum up",
                                    !.decision = "TOPIC ok"]
ResponseArgs == [DefaultArgs EXCEPT !.input_prompt = "Sum up",
                                    !.llm_response = "topic wide"]
ChainArgs == {DefaultArgs, ReasoningArgs, DecisionArgs, ResponseArgs}
Topics == {"Topic", "plan", "SUM", ""}

GetReasoningChainCall(topic) ==
    /\ ret' = [NoResult EXCEPT !.op = "get_reasoning_chain",
                  !.query = [NoQuery EXCEPT !.topic = topic],
                  !.list = GetReasoningChain(entries, topic)]
    /\ UNCHANGED <<files, log_file, max_entries, entries, current_session_id, now,
                   hist, faults_left, messages>>

ChainInit ==
    /\ Constructed(NoFile, MaxHeld)
    /\ hist = NotRecording
    /\ faults_left = 0
    /\ messages = <<>>

ChainNext ==
    \/ \E a \in ChainArgs : LogStep(a, "ok")
    \/ \E topic \in Topics : GetReasoningChainCall(topic)

ChainSpec == ChainInit /\ [][ChainNext]_vars

(***************************************************************************)
(* The logger logged to with decisions of differing confidence, in two     *)
(* sessions, and summarized.                                               *)
(***************************************************************************)
CreateSummaryCall(S) ==
    /\ LET got == SummaryEntries(entries, S, current_session_id)
       IN  IF got.raised # None
           THEN ret' = [NoResult EXCEPT !.op = "create_summary", !.arg = S,
                           !.raised = got.raised]
           ELSE \E average \in AverageConfidence(got.value) :
                   ret' = [NoResult EXCEPT !.op = "create_summary", !.arg = S,
                              !.summary = CreateSummary(got.value, S,
                                                        current_session_id, average)]
    /\ UNCHANGED <<files, log_file, max_entries, entries, current_session_id, now,
                   hist, faults_left, messages>>

\* decisions at 0.71 and at 0.70, a draft at 0.5, a failed step at 0.0 logged
\* with the caller's own session_id
SufficientArgs == [TupleArgs EXCEPT !.confidence = 71]
BorderlineArgs == [TupleArgs EXCEPT !.confidence = 70, !.decision = "X"]
DraftArgs ==
    [DefaultArgs EXCEPT !.agent = "Writer", !.decision = "Draft", !.confidence = 50,
                        !.level = "WARNING"]
FailedArgs == [CallerArgs EXCEPT !.confidence = 0]
SummaryArgs == {DefaultArgs, SufficientArgs, BorderlineArgs, DraftArgs, FailedArgs}

SummaryInit ==
    /\ Constructed(NoFile, MaxHeld)
    /\ hist = NotRecording
    /\ faults_left = 0
    /\ messages = <<>>

SummaryNext ==
    \/ \E a \in SummaryArgs : LogStep(a, "ok")
    \/ \E S \in {None, current_session_id, CallerSession, "session_unknown"} :
          CreateSummaryCall(S)

SummarySpec == SummaryInit /\ [][SummaryNext]_vars

(***************************************************************************)
(* Two steps logged some seconds apart, and summarized.                    *)
(***************************************************************************)
Gaps == {1, 45, 59, 60, 61, 3599, 3600, 3601, 5400, 86399, 86400, 90000, 172800}

\* the clock moves on by d seconds
Elapse(d) ==
    /\ now = 0
    /\ now' = d
    /\ UNCHANGED <<files, log_file, max_entries, entries, current_session_id, ret,
                   hist, faults_left, messages>>

SpanInit ==
    /\ Constructed(NoFile, MaxCap)
    /\ hist = NotRecording
    /\ faults_left = 0
    /\ messages = <<>>

SpanNext ==
    \/ \E d \in Gaps : Elapse(d)
    \/ LogStep(DefaultArgs, "ok")
    \/ CreateSummaryCall(None)

SpanSpec == SpanInit /\ [][SpanNext]_vars

(***************************************************************************)
(* The logger logged to in two sessions and cleared, over a file system    *)
(* that may fail.                                                          *)
(***************************************************************************)
ClearInit ==
    /\ Constructed(NoFile, MaxHeld)
    /\ hist = NotRecording
    /\ faults_left = MaxFaults
    /\ messages = <<>>

ClearNext ==
    \/ \E a \in {DefaultArgs, TupleArgs, CallerArgs}, io \in IoOutcomes : LogStep(a, io)
    \/ \E S \in {None, current_session_id, CallerSession, "session_unknown"},
          io \in IoOutcomes : ClearLogs(S, io)

ClearSpec == ClearInit /\ [][ClearNext]_vars

(***************************************************************************)
(* The logger logged to in two sessions and exported, to its own log file  *)
(* or to another path, over a file system that may fail.                   *)
(***************************************************************************)
ExportInit ==
    /\ Constructed(NoFile, MaxHeld)
    /\ hist = NotRecording
    /\ faults_left = MaxFaults
    /\ messages = <<>>

ExportNext ==
    \/ \E a \in {DefaultArgs, CallerArgs} : LogStep(a, "ok")
    \/ \E path \in Paths, S \in {None, CallerSession}, io \in {"ok", "write_error"} :
          ExportToJson(path, S, io)

ExportSpec == ExportInit /\ [][ExportNext]_vars

(***************************************************************************)
(* The logger under every operation it has: logged to, cleared, asked,     *)
(* summarized, exported, moved to a new session.                           *)
(***************************************************************************)
LifeInit ==
    /\ Constructed(NoFile, MaxCap)
    /\ hist = NotRecording
    /\ faults_left = 0
    /\ messages = <<>>

LifeNext ==
    \/ \E a \in {DefaultArgs, ReasoningArgs, CallerArgs} : LogStep(a, "ok")
    \/ \E S \in {None, CallerSession} : ClearLogs(S, "ok")
    \/ StartNewSession
    \/ \E agent \in {None, "Planner"}, level \in {None, "ERROR"},
          limit \in {NoLimit, [given |-> TRUE, value |-> 1]} :
          GetEntriesCall(agent, level, limit)
    \/ \E S \in {None, CallerSession} : GetSessionEntriesCall(S)
    \/ \E topic \in {"Topic", "plan"} : GetReasoningChainCall(topic)
    \/ \E S \in {None, CallerSession} : CreateSummaryCall(S)
    \/ ExportToJson(OtherPath, None, "ok")

LifeSpec == LifeInit /\ [][LifeNext]_vars

(***************************************************************************)
(* The loader over files of every top-level shape: the same entry list as  *)
(* a bare array at the log path and inside the wrapper object at the other *)
(* path, and the files that are neither.                                   *)
(***************************************************************************)
ListShapes == {"array", "object_entries_string"}
UnknownShapes ==
    {"unparseable", "scalar", "object_no_entries", "object_entries_string"}
        \cup SliceRaisingKinds

\* the file of shape s made of the entry list L; of a string, each character is
\* an element that is no JSON object
Shaped(L, s) ==
    [kind |-> s, session_id |-> None, stamp_key |-> None, total_entries |-> 0,
     entries |->
        IF s = "array" THEN L
        ELSE IF s = "object_entries_string"
        THEN [i \in 1..Len(L) |-> [L[i] EXCEPT !.shape = "string"]]
        ELSE <<>>]

ShapeKindSeqs == UNION {KindSeqs(n) : n \in 0..MaxShapeLen}

ShapeInit ==
    /\ now = 0
    /\ log_file = LogPath
    /\ max_entries \in 0..(MaxShapeLen + 1)
    /\ \E s \in ListShapes \cup UnknownShapes :
       \E ks \in IF s \in ListShapes THEN ShapeKindSeqs ELSE {<<>>} :
          files = [p \in Paths |->
                      IF p = LogPath THEN Shaped(RawFile(ks).entries, s)
                      ELSE RawFile(ks)]
    /\ current_session_id = None
    /\ entries = <<>>
    /\ ret = NoResult
    /\ hist = NotRecording
    /\ faults_left = 0
    /\ messages = <<>>

\* a logger is constructed over one of the two files, then one over the other
ShapeConstruct(path) ==
    /\ ret.op = "none" \/ path # log_file
    /\ Construct(path, max_entries)

ShapeNext == \E path \in Paths : ShapeConstruct(path)

ShapeSpec == ShapeInit /\ [][ShapeNext]_vars

(***************************************************************************)
(* The logger over a log file some other writer left: entries whose        *)
(* metadata has no session_id, or is null.                                 *)
(***************************************************************************)
LegacyKinds == {"good", "no_session_id", "null_metadata"}

LegacyEntry(i, kind) ==
    CASE kind = "good" -> RawGood(i)
      [] kind = "no_session_id" ->
            [RawGood(i) EXCEPT !.metadata = [type |-> "dict", session_id |-> NoKey,
                                             topic |-> "str"]]
      [] kind = "null_metadata" -> [RawGood(i) EXCEPT !.metadata = NoMetadata]

LegacyFile(ks) ==
    [kind |-> "array", session_id |-> None, stamp_key |-> None, total_entries |-> 0,
     entries |-> [i \in 1..Len(ks) |-> LegacyEntry(i, ks[i])]]

LegacyFiles ==
    {LegacyFile(ks) : ks \in UNION {[1..n -> LegacyKinds] : n \in 0..MaxShapeLen}}

LegacyInit ==
    /\ \E f \in LegacyFiles : Constructed(f, MaxHeld)
    /\ hist = NotRecording
    /\ faults_left = 0
    /\ messages = <<>>

LegacyNext ==
    \/ LogStep(DefaultArgs, "ok")
    \/ \E S \in {None, PriorSession} : GetSessionEntriesCall(S)
    \/ CreateSummaryCall(PriorSession)
    \/ ClearLogs(PriorSession, "ok")

LegacySpec == LegacyInit /\ [][LegacyNext]_vars

(***************************************************************************)
(* The same logger over a file system that fails: no clock needed.         *)
(***************************************************************************)
PersistInit ==
    /\ \E f \in InitFiles, m \in 0..MaxCap : Constructed(f, m)
    /\ hist = NotRecording
    /\ faults_left = MaxFaults
    /\ messages = <<>>

PersistNext ==
    \/ \E a \in LogArgs, io \in IoOutcomes : LogStep(a, io)
    \/ \E S \in {None, current_session_id, PriorSession}, io \in IoOutcomes :
          ClearLogs(S, io)
    \/ StartNewSession

PersistSpec == PersistInit /\ [][PersistNext]_vars

(***************************************************************************)
(* A logger that starts empty and is only logged to, its calls recorded.   *)
(***************************************************************************)
EvictInit ==
    /\ \E m \in 0..MaxCap : Constructed(NoFile, m)
    /\ hist = [recording |-> TRUE, logged |-> <<>>]
    /\ faults_left = 0
    /\ messages = <<>>

RecordedLogStep(a) ==
    /\ Len(hist.logged) < MaxSteps
    /\ LogStep(a, "ok")

EvictNext ==
    \/ Tick
    \/ \E a \in LogArgs : RecordedLogStep(a)

EvictSpec == EvictInit /\ [][EvictNext]_vars

(***************************************************************************)
(* AgentManager: the orchestrator over a logger built with the defaults.   *)
(***************************************************************************)
DefaultMaxEntries == 1000    \* max_entries: int = 1000

\* save_logs(self, filepath: str = "logs/chain_of_thought.json")
SaveLogsDefaultPath == "logs/chain_of_thought.json"

\* self.session_id = self.cot_logger.start_new_session(): the manager calls
\* start_new_session nowhere else, so the logger's current session stays this one
session_id == current_session_id

\* plan["sections"] of _run_planner
PlanSections ==
    <<"Introduction", "Background", "Current State", "Analysis", "Conclusion">>

JsonMetadata == [type |-> "dict", session_id |-> NoKey, topic |-> "str"]

ManagerStartArgs(topic) ==
    [DefaultArgs EXCEPT !.agent = "Manager",
        !.input_prompt = "Starting research on topic: " \o topic,
        !.reasoning = "Initiating research workflow with topic analysis",
        !.decision = "Begin with planning phase", !.confidence = 100]

ManagerCompletionArgs(topic) ==
    [DefaultArgs EXCEPT !.agent = "Manager",
        !.input_prompt = "Research workflow completed",
        !.reasoning = "All phases completed successfully",
        !.decision = "Return results to user", !.confidence = 100,
        !.metadata = JsonMetadata]

ManagerErrorArgs(topic, error) ==
    [DefaultArgs EXCEPT !.agent = "Manager",
        !.input_prompt = "Error in research process: " \o error,
        !.reasoning = "Exception occurred during research workflow",
        !.decision = "Abort research and return error", !.confidence = 0,
        !.level = "ERROR", !.metadata = JsonMetadata]

\* _run_planner: the start entry, then the completion entry
PlannerSteps(topic) ==
    <<[DefaultArgs EXCEPT !.agent = "Planner",
          !.input_prompt = "Plan research for topic: " \o topic,
          !.reasoning = "Analyzing topic to create structured research plan",
          !.decision = "Generate research sections and approaches",
          !.confidence = 90],
      [DefaultArgs EXCEPT !.agent = "Planner",
          !.input_prompt = "Planning completed for: " \o topic,
          !.reasoning = "Generated 5 research sections with multiple approaches",
          !.decision = "Plan approved and ready for research phase",
          !.confidence = 95, !.metadata = JsonMetadata]>>

\* _run_researchers, one turn of the loop: the start entry, then the completion
\* entry with the two simulated tool calls
SectionSteps(section) ==
    <<[DefaultArgs EXCEPT !.agent = "Researcher",
          !.input_prompt = "Research section: " \o section,
          !.reasoning = "Gathering information for " \o section
                           \o " using available tools",
          !.decision = "Execute search queries and collect data",
          !.confidence = 80],
      [DefaultArgs EXCEPT !.agent = "Researcher",
          !.input_prompt = "Research completed for: " \o section,
          !.tool_calls = <<SearchCall("web_search", "str"),
                           SearchCall("academic_search", "str")>>,
          !.reasoning = "Successfully collected data from 2 sources",
          !.decision = "Data quality sufficient for " \o section,
          !.confidence = 85, !.metadata = JsonMetadata]>>

\* for section in plan.get("sections", [])
RECURSIVE ResearcherSteps(_)
ResearcherSteps(sections) ==
    IF sections = <<>> THEN <<>>
    ELSE SectionSteps(Head(sections)) \o ResearcherSteps(Tail(sections))

\* _run_writer: the start entry, then the completion entry
WriterSteps ==
    <<[DefaultArgs EXCEPT !.agent = "Writer",
          !.input_prompt = "Compile final report from research data",
          !.reasoning = "Structuring report from 5 research sections",
          !.decision = "Generate comprehensive markdown report", !.confidence = 90],
      [DefaultArgs EXCEPT !.agent = "Writer",
          !.input_prompt = "Report compilation completed",
          !.reasoning = "Generated report with 5 sections",
          !.decision = "Report quality meets standards", !.confidence = 95,
          !.metadata = JsonMetadata]>>

\* the log_step calls of a start_research whose try block runs through
ManagerSteps(topic) ==
    <<ManagerStartArgs(topic)>> \o PlannerSteps(topic) \o ResearcherSteps(PlanSections)
        \o WriterSteps \o <<ManagerCompletionArgs(topic)>>

\* self.entries after log_step has been called with each of `steps` in turn
RECURSIVE LoggedAll(_, _, _, _, _)
LoggedAll(es, steps, sid, t, m) ==
    IF steps = <<>> THEN es
    ELSE LoggedAll(Logged(es, NewEntry(Head(steps), sid, t), m), Tail(steps), sid, t, m)

\* start_research: the phases logged in turn, each log_step saving the log; the
\* summary of the manager's session is built inside the try, so that what it
\* raises is logged by the except branch, which builds the summary once more
StartResearch(topic) ==
    /\ Len(entries) < MaxRuns * Len(ManagerSteps(topic))
    /\ LET ran == LoggedAll(entries, ManagerSteps(topic), current_session_id, now,
                            max_entries)
           got == SummaryEntries(ran, session_id, current_session_id)
           failed == LoggedAll(ran, <<ManagerErrorArgs(topic, got.raised)>>,
                               current_session_id, now, max_entries)
           again == SummaryEntries(failed, session_id, current_session_id)
           held == IF got.raised = None THEN ran ELSE failed
           out == IF got.raised = None THEN got ELSE again
       IN  /\ entries' = held
           /\ files' = [files EXCEPT ![log_file] =
                           SaveLogs(files[log_file], held, current_session_id,
                                    "ok").content]
           /\ IF out.raised # None
              THEN ret' = [NoResult EXCEPT !.op = "start_research", !.arg = topic,
                              !.raised = out.raised, !.save = "ok"]
              ELSE \E average \in AverageConfidence(out.value) :
                      ret' = [NoResult EXCEPT !.op = "start_research", !.arg = topic,
                                 !.success = IF got.raised = None THEN "True"
                                             ELSE "False",
                                 !.save = "ok",
                                 !.summary = CreateSummary(out.value, session_id,
                                                           current_session_id,
                                                           average)]
    /\ UNCHANGED <<log_file, max_entries, current_session_id, now, hist, faults_left,
                   messages>>

\* get_chain_of_thought_summary
GetChainOfThoughtSummary == CreateSummaryCall(session_id)

\* get_detailed_logs
GetDetailedLogs == GetSessionEntriesCall(session_id)

\* export_session_logs(file_path)
ExportSessionLogs(file_path) == ExportToJson(file_path, session_id, "ok")

\* save_logs(filepath): export_to_json inside try/except Exception
ManagerSaveLogs(filepath) ==
    /\ LET got == ExportEntries(entries, session_id, current_session_id)
           doc == JsonDocument(TargetSession(session_id, current_session_id),
                               "exported_at", got.value)
           w == WriteJson(files[filepath], doc, got.value, "ok")
       IN  IF got.raised # None
           THEN /\ files' = files
                /\ ret' = [NoResult EXCEPT !.op = "save_logs", !.path = filepath,
                              !.caught = got.raised]
           ELSE /\ files' = [files EXCEPT ![filepath] = w.content]
                /\ ret' = [NoResult EXCEPT !.op = "save_logs", !.path = filepath,
                              !.caught = w.error, !.count = Len(got.value)]
    /\ UNCHANGED <<log_file, max_entries, entries, current_session_id, now, hist,
                   faults_left, messages>>

\* the log files a manager starts over: none, one an earlier run of the logger
\* left, and one of another writer holding an entry whose metadata is null
ManagerFiles ==
    InitFiles \cup {LegacyFile(<<"good", "null_metadata">>)}

ResearchTopics == {"Topic", "plan"}

\* AgentManager(): ChainOfThoughtLogger() with its defaults, then start_new_session
ManagerInit ==
    /\ \E f \in ManagerFiles : Constructed(f, DefaultMaxEntries)
    /\ hist = NotRecording
    /\ faults_left = 0
    /\ messages = <<>>

ManagerNext ==
    \/ Tick
    \/ \E topic \in ResearchTopics : StartResearch(topic)
    \/ GetChainOfThoughtSummary
    \/ GetDetailedLogs
    \/ ExportSessionLogs(OtherPath)
    \/ ManagerSaveLogs(SaveLogsDefaultPath)

ManagerSpec == ManagerInit /\ [][ManagerNext]_vars

(***************************************************************************)
(* ShortTermMemory: the conversation buffer, added to and trimmed.         *)
(***************************************************************************)
\* s[:-n] for n >= 0: -0 is 0, so s[:-0] is s[:0], the empty list
PySliceHead(s, n) ==
    IF n = 0 THEN <<>> ELSE SubSeq(s, 1, Max(Len(s) - n, 0))

\* the message add_message appends: timestamp and id filled in when absent
Message(role, content, held, t) ==
    [role |-> role, content |-> content, timestamp |-> t,
     id |-> "msg_" \o ToString(held) \o "_" \o ToString(t)]

\* _auto_trim: keep the most recent max_messages
AutoTrim(ms, m) == IF Len(ms) > m THEN PySliceLast(ms, m) ELSE ms

\* add_message on a memory built with max_messages = MaxMessages
AddMessage(role, content) ==
    /\ messages' = AutoTrim(Append(messages, Message(role, content, Len(messages), now)),
                            MaxMessages)
    /\ ret' = [NoResult EXCEPT !.op = "add_message"]
    /\ UNCHANGED <<files, log_file, max_entries, entries, current_session_id, now,
                   hist, faults_left>>

\* clear_memory
ClearMemory ==
    /\ messages' = <<>>
    /\ ret' = [NoResult EXCEPT !.op = "clear_memory"]
    /\ UNCHANGED <<files, log_file, max_entries, entries, current_session_id, now,
                   hist, faults_left>>

\* trim_to_limit(new_limit): the removed messages are returned
TrimToLimit(new_limit) ==
    /\ IF new_limit >= Len(messages)
       THEN /\ messages' = messages
            /\ ret' = [NoResult EXCEPT !.op = "trim_to_limit", !.count = new_limit,
                          !.list = <<>>]
       ELSE /\ messages' = PySliceLast(messages, new_limit)
            /\ ret' = [NoResult EXCEPT !.op = "trim_to_limit", !.count = new_limit,
                          !.list = PySliceHead(messages, new_limit)]
    /\ UNCHANGED <<files, log_file, max_entries, entries, current_session_id, now,
                   hist, faults_left>>

TrimInit ==
    /\ Constructed(NoFile, MaxCap)
    /\ hist = NotRecording
    /\ faults_left = 0
    /\ messages = <<>>

TrimNext ==
    \/ \E role \in {"user", "assistant"}, content \in {"hello", "details"} :
          AddMessage(role, content)
    \/ \E new_limit \in 0..(MaxMessages + 1) : TrimToLimit(new_limit)
    \/ ClearMemory

TrimSpec == TrimInit /\ [][TrimNext]_vars

(***************************************************************************)
(* Properties.                                                             *)
(***************************************************************************)
Last(s) == s[Len(s)]

\* the n most recent elements of s, oldest first
LastN(s, n) == [i \in 1..n |-> s[Len(s) - n + i]]

\* C1: for a logger built with max_entries >= 1, len(entries) <= max_entries in
\* every reachable state: after construction over a log file of any length and
\* after every log_step, clear_logs and start_new_session, in any order.
C1_CapacityInvariant == max_entries >= 1 => Len(entries) <= max_entries

\* a logger with max_entries = 2 built over a file of three entries, logged to
\* once: the older of the two loaded entries has made room
C1_Witness ==
    /\ max_entries = 2
    /\ ret.op = "log_step"
    /\ Len(entries) = 2
    /\ entries[1].input_prompt = "Prior step 3"
    /\ entries[2].metadata.session_id = current_session_id

\* C2: from an empty logger with max_entries = M >= 1, after n log_step calls and
\* no clear, entries is exactly the last min(n, M) logged entries in the order
\* they were logged.
C2_OldestFirstEviction ==
    (hist.recording /\ max_entries >= 1) =>
        entries = LastN(hist.logged, Min(Len(hist.logged), max_entries))

\* M = 2 and three different entries A, B, C logged: [B, C] is held
C2_Witness ==
    /\ hist.recording
    /\ max_entries = 2
    /\ Len(hist.logged) = 3
    /\ hist.logged[1] # hist.logged[2]
    /\ hist.logged[2] # hist.logged[3]
    /\ hist.logged[1] # hist.logged[3]
    /\ entries = <<hist.logged[2], hist.logged[3]>>

\* the JSON object of the file is the entry: field by field, the level by its value
Persisted(raw, e) ==
    /\ raw.shape = "object" /\ raw.keys = EntryKeys
    /\ raw.timestamp = e.timestamp /\ raw.agent = e.agent /\ raw.step_id = e.step_id
    /\ raw.input_prompt = e.input_prompt /\ raw.llm_response = e.llm_response
    /\ raw.decision = e.decision /\ raw.reasoning = e.reasoning
    /\ raw.confidence = e.confidence
    /\ raw.level = LevelValue(e.level)
    /\ raw.metadata.session_id = e.metadata.session_id
    /\ Len(raw.tool_calls) = Len(e.tool_calls)
    /\ \A i \in 1..Len(e.tool_calls) :
          raw.tool_calls[i].tool_name = e.tool_calls[i].tool_name

\* C3: when a log_step call returns and its write did not fail, the log file's
\* entries array is the complete in-memory sequence after eviction, in order,
\* the new entry last, and total_entries is its length.
C3_LogStepPersistsFullLog ==
    (ret.op = "log_step" /\ ret.save = "ok") =>
        LET f == files[log_file]
        IN  /\ f.kind = "object"
            /\ f.total_entries = Len(entries)
            /\ Len(f.entries) = Len(entries)
            /\ \A i \in 1..Len(entries) : Persisted(f.entries[i], entries[i])
            /\ Last(f.entries).step_id = ret.step_id

\* a full logger logged to: the file holds the two entries kept and not the
\* entry evicted in the call
C3_Witness ==
    /\ ret.op = "log_step" /\ ret.save = "ok"
    /\ max_entries = 2
    /\ Len(files[log_file].entries) = 2
    /\ files[log_file].entries[1].input_prompt = "Prior step 3"
    /\ files[log_file].entries[2].metadata.session_id = current_session_id

\* C4: log_step raises nothing, whatever the arguments and whether or not the
\* write fails; it returns the new step_id and the new entry is the last element
\* of the in-memory sequence.
C4_LogStepAlwaysSucceeds ==
    ret.op = "log_step" =>
        /\ ret.raised = None
        /\ entries # <<>>
        /\ Last(entries).step_id = ret.step_id
        /\ Last(entries).timestamp = now
        /\ Last(entries).metadata.type = "dict"

\* a confidence of 1.5 logged while json.dump raises TypeError on an entry held
C4_Witness ==
    /\ ret.op = "log_step"
    /\ ret.caught = "TypeError"
    /\ ret.save = "failed_mid_write"
    /\ Last(entries).confidence = 150

\* C5: a save that fails part-way leaves the log file a complete document: the
\* one persisted before, or the new one; never an empty or truncated file.
C5_FailedSaveKeepsDocument ==
    [][(files[log_file].kind = "object"
          /\ ret'.op \in {"log_step", "clear_logs"} /\ ret'.save = "failed_mid_write")
          => files'[log_file].kind = "object"]_vars

\* json represents every value of these entries exactly: no tuple among them
JsonExact(es) ==
    \A i \in 1..Len(es) :
        /\ es[i].metadata.topic # "tuple"
        /\ \A j \in 1..Len(es[i].tool_calls) : es[i].tool_calls[j].results # "tuple"

\* the log saved by log_step, then a fresh logger built over the log file
SavedThenReopened ==
    /\ ret.op = "log_step" /\ ret.save = "ok"
    /\ ret'.op = "construct" /\ log_file' = log_file

\* the whole log exported, then a fresh logger built over the exported file
ExportedThenReopened ==
    /\ ret.op = "export_to_json" /\ ret.arg = None /\ ret.raised = None
    /\ ret'.op = "construct" /\ log_file' = ret.path

\* C6 as stated: saving (or exporting the whole log) and building a fresh logger
\* over the file with max_entries >= n gives back the same entries, in order.
C6_RoundTrip ==
    [][((SavedThenReopened \/ ExportedThenReopened) /\ max_entries' >= Len(entries))
          => entries' = entries]_vars

\* C6, amended: the round trip gives back the same entries when json represents
\* their values exactly.
C6_RoundTripOfJsonValues ==
    [][((SavedThenReopened \/ ExportedThenReopened) /\ max_entries' >= Len(entries)
          /\ JsonExact(entries))
          => entries' = entries]_vars

\* a logger built over an exported file of two entries of different levels, one
\* of them with a tool call and caller metadata
C6_Witness ==
    /\ ret.op = "construct"
    /\ log_file = OtherPath
    /\ Len(entries) = 2
    /\ entries[1].level = "INFO" /\ entries[2].level = "ERROR"
    /\ Len(entries[2].tool_calls) = 1
    /\ entries[2].metadata.topic = "list"

\* corrupt as the claim lists it: not a JSON object, a required field missing,
\* a level that is none of the five, a tool call that is not the seven fields
Corrupt(raw) ==
    \/ raw.shape # "object"
    \/ \E k \in EntryRequired : k \notin raw.keys
    \/ raw.level \notin {"debug", "info", "warning", "error", "critical"}
    \/ \E i \in 1..Len(raw.tool_calls) :
          \E k \in ToolCallRequired : k \notin raw.tool_calls[i].keys

RECURSIVE IntactOf(_)
IntactOf(raws) ==
    IF raws = <<>> THEN <<>>
    ELSE IF Corrupt(Head(raws)) THEN IntactOf(Tail(raws))
    ELSE <<Head(raws)>> \o IntactOf(Tail(raws))

\* C7: of the persisted entries considered for loading, _load_logs skips exactly
\* the corrupt ones and loads every other one, in file order, without raising.
C7_CorruptEntriesSkipped ==
    ret.op = "construct" =>
        LET intact == IntactOf(LoadWindow(files[log_file], max_entries))
        IN  /\ ret.raised = None
            /\ Len(entries) = Len(intact)
            /\ \A i \in 1..Len(intact) :
                  /\ entries[i].step_id = intact[i].step_id
                  /\ entries[i].input_prompt = intact[i].input_prompt
                  /\ LevelValue(entries[i].level) = intact[i].level

\* five entries, the third with an invalid level, max_entries = 5: the other four
C7_Witness ==
    /\ ret.op = "construct"
    /\ max_entries = 5
    /\ Len(files[log_file].entries) = 5
    /\ files[log_file].entries[3].level = "verbose"
    /\ \A i \in {1, 2, 4, 5} : ~Corrupt(files[log_file].entries[i])
    /\ Len(entries) = 4
    /\ [i \in 1..4 |-> entries[i].timestamp] = <<1, 2, 4, 5>>

RECURSIVE OfSession(_, _)
OfSession(es, S) ==
    IF es = <<>> THEN <<>>
    ELSE IF Head(es).metadata.session_id = S THEN <<Head(es)>> \o OfSession(Tail(es), S)
    ELSE OfSession(Tail(es), S)

\* C8: get_session_entries(S) returns exactly the entries whose metadata
\* session_id is S, in their original order, whatever other sessions lie between.
C8_SessionScoping ==
    (ret.op = "get_session_entries" /\ ret.arg # None) =>
        /\ ret.raised = None
        /\ ret.list = OfSession(entries, ret.arg)

\* three entries held, the middle one of another session: the first and third
C8_Witness ==
    /\ ret.op = "get_session_entries"
    /\ Len(entries) = 3
    /\ ret.arg = entries[1].metadata.session_id
    /\ entries[2].metadata.session_id # ret.arg
    /\ entries[3].metadata.session_id = ret.arg
    /\ ret.list = <<entries[1], entries[3]>>

\* C9: log_step stamps the new entry with the logger's current session, also
\* when the metadata argument holds a session_id key.
C9_StampedWithCurrentSession ==
    ret.op = "log_step" => Last(entries).metadata.session_id = current_session_id

\* C10: after construction over a file of k persisted entries, the entries held
\* come from the last min(k, max_entries) persisted ones, in file order.
C10_LoadsOnlyMostRecent ==
    ret.op = "construct" =>
        LET raw == files[log_file].entries
            k == Len(raw)
            n == Min(k, max_entries)
            pos(e) == CHOOSE i \in 1..k : raw[i].step_id = e.step_id
        IN  /\ \A i \in 1..Len(entries) :
                  \E j \in (k - n + 1)..k : raw[j].step_id = entries[i].step_id
            /\ \A i, j \in 1..Len(entries) : i < j => pos(entries[i]) < pos(entries[j])

\* C11: a bare top-level array L and the wrapper object {"entries": L} load to
\* the same in-memory entries, for every L and every max_entries.
C11_BareArrayLoadsAsWrapper ==
    [][(/\ ret.op = "construct" /\ ret'.op = "construct"
        /\ max_entries' = max_entries
        /\ {files[log_file].kind, files[log_file'].kind} = {"array", "object"}
        /\ files[log_file].entries = files[log_file'].entries)
          => entries' = entries]_vars

\* a bare array of three entries, the second with an invalid level, loaded with
\* max_entries = 2: the third entry alone
C11_Witness ==
    /\ ret.op = "construct"
    /\ files[log_file].kind = "array"
    /\ max_entries = 2
    /\ Len(files[log_file].entries) = 3
    /\ files[log_file].entries[2].level = "verbose"
    /\ Len(entries) = 1
    /\ entries[1].timestamp = 3
    /\ entries = LoadLogs(files[OtherPath], max_entries)

\* C12: over a log file of unknown or invalid structure (text that is no JSON, a
\* top-level scalar, an object without "entries", an "entries" that is no array)
\* the constructor raises nothing and the in-memory log is empty.
C12_UnknownStructureLoadsEmpty ==
    (ret.op = "construct" /\ files[log_file].kind \in UnknownShapes) =>
        /\ ret.raised = None
        /\ entries = <<>>

\* "entries": null: the slice raises TypeError, which the outer handler swallows
C12_Witness ==
    /\ ret.op = "construct"
    /\ files[log_file].kind = "object_entries_null"
    /\ ret.caught = "TypeError"
    /\ ret.raised = None
    /\ entries = <<>>

RECURSIVE Matching(_, _, _)
Matching(es, agent, level) ==
    IF es = <<>> THEN <<>>
    ELSE LET e == Head(es)
             rest == Matching(Tail(es), agent, level)
         IN  IF (agent # None => e.agent = agent) /\ (level # None => e.level = level)
             THEN <<e>> \o rest
             ELSE rest

\* C13: get_entries returns, in insertion order, the entries matching every
\* filter given; with a limit given (any limit >= 0, zero too) the result is the
\* last `limit` of the matches, so never more than `limit` entries.
C13_FilterThenTail ==
    ret.op = "get_entries" =>
        LET q == ret.query
            matches == Matching(entries, q.agent, q.level)
        IN  IF q.limit.given
            THEN /\ ret.list = LastN(matches, Min(q.limit.value, Len(matches)))
                 /\ Len(ret.list) <= q.limit.value
            ELSE ret.list = matches

\* two characters that are the same letter, whatever their case
SameLetter(a, b) ==
    \/ a = b
    \/ \E i \in 1..Len(UpperCase) : {a, b} = {UpperCase[i], LowerCase[i]}

\* the word occurs in the text at some offset, letter for letter, case aside
Mentions(text, word) ==
    LET x == Spelling(text)
        w == Spelling(word)
    IN  \E off \in 0..(Len(x) - Len(w)) : \A k \in 1..Len(w) : SameLetter(x[off + k], w[k])

RECURSIVE AboutTopic(_, _)
AboutTopic(es, topic) ==
    IF es = <<>> THEN <<>>
    ELSE LET e == Head(es)
         IN  IF \/ Mentions(e.input_prompt, topic)
                \/ Mentions(e.reasoning, topic)
                \/ Mentions(e.decision, topic)
             THEN <<e>> \o AboutTopic(Tail(es), topic)
             ELSE AboutTopic(Tail(es), topic)

\* C14: get_reasoning_chain(topic) returns, in original order, exactly the
\* entries in which topic occurs, case aside, in input_prompt, reasoning or
\* decision; llm_response, agent and metadata are not searched.
C14_TopicSearch ==
    ret.op = "get_reasoning_chain" =>
        ret.list = AboutTopic(entries, ret.query.topic)

\* "Topic" searched: the entry whose reasoning says "on topic" and the one whose
\* decision says "TOPIC ok" come back; the one between them, which has the word
\* in its llm_response only, does not; nor does "plan" find an agent "Planner"
C14_Witness ==
    /\ ret.op = "get_reasoning_chain"
    /\ ret.query.topic = "Topic"
    /\ Len(entries) = 3
    /\ entries[1].reasoning = "on topic"
    /\ Mentions(entries[2].llm_response, "Topic")
    /\ Mentions(entries[2].agent, "plan")
    /\ entries[3].decision = "TOPIC ok"
    /\ ret.list = <<entries[1], entries[3]>>
    /\ GetReasoningChain(entries, "plan") = <<>>

\* the span the claim gives for d seconds: the largest unit that applies, the
\* thresholds included
SpanOf(d) ==
    IF d >= 86400 THEN [n |-> d \div 86400, unit |-> "days"]
    ELSE IF d >= 3600 THEN [n |-> d \div 3600, unit |-> "hours"]
    ELSE IF d >= 60 THEN [n |-> d \div 60, unit |-> "minutes"]
    ELSE [n |-> d, unit |-> "seconds"]

\* C15: for first and last timestamps d >= 0 whole seconds apart the span is
\* '<n> days' when d >= 86400, else '<d div 3600> hours' when d >= 3600, else
\* '<d div 60> minutes' when d >= 60, else '<d> seconds'.
C15_TimeSpanBuckets ==
    (ret.op = "create_summary" /\ entries # <<>>) =>
        ret.summary.time_span = SpanOf(Last(entries).timestamp - entries[1].timestamp)

\* the entries create_summary(S) is to summarize: those of session S, or all
Summarized ==
    IF ret.arg = None THEN entries ELSE OfSession(entries, ret.arg)

RECURSIVE Decisive(_)
Decisive(es) ==
    IF es = <<>> THEN <<>>
    ELSE IF Head(es).decision # "" /\ Head(es).confidence >= 71
    THEN <<Head(es)>> \o Decisive(Tail(es))
    ELSE Decisive(Tail(es))

\* C16: key_decisions holds, in entry order, exactly the summarized entries with
\* a non-empty decision and a confidence strictly above 0.7 (0.70 out, 0.71 in),
\* each as its agent, decision, confidence and timestamp.
C16_KeyDecisionThreshold ==
    (ret.op = "create_summary" /\ Summarized # <<>>) =>
        LET key == Decisive(Summarized)
            got == ret.summary.key_decisions
        IN  /\ "key_decisions" \in ret.summary.keys
            /\ Len(got) = Len(key)
            /\ \A i \in 1..Len(key) :
                  /\ DOMAIN got[i] = {"agent", "decision", "confidence", "timestamp"}
                  /\ got[i].agent = key[i].agent
                  /\ got[i].decision = key[i].decision
                  /\ got[i].confidence = key[i].confidence
                  /\ got[i].timestamp = key[i].timestamp

\* decisions at 0.70 and at 0.71 and a confident step without a decision
\* summarized: the one at 0.71 alone is a key decision
C16_Witness ==
    /\ ret.op = "create_summary"
    /\ ret.arg = None
    /\ Len(entries) = 3
    /\ entries[1].decision = "X" /\ entries[1].confidence = 70
    /\ entries[2].decision = "" /\ entries[2].confidence = 100
    /\ entries[3].decision = "Data sufficient" /\ entries[3].confidence = 71
    /\ Len(ret.summary.key_decisions) = 1
    /\ ret.summary.key_decisions[1].confidence = 71

RECURSIVE SumOfConfidences(_, _)
SumOfConfidences(es, n) ==
    IF n = 0 THEN 0 ELSE SumOfConfidences(es, n - 1) + es[n].confidence

\* C17: for a non-empty summarized set average_confidence is the mean of the
\* entries' confidences rounded to 2 decimals: in hundredths, no further than
\* half a hundredth from the mean.
C17_AverageConfidence ==
    (ret.op = "create_summary" /\ Summarized # <<>>) =>
        LET n == Len(Summarized)
            total == SumOfConfidences(Summarized, n)
            average == ret.summary.average_confidence
        IN  /\ 2 * (average * n - total) <= n
            /\ 2 * (total - average * n) <= n

\* confidences 1.0, 0.5 and 0.0 summarized: 0.5
C17_Witness ==
    /\ ret.op = "create_summary"
    /\ ret.arg = None
    /\ [i \in 1..Len(entries) |-> entries[i].confidence] = <<100, 50, 0>>
    /\ ret.summary.average_confidence = 50

RECURSIVE SumOver(_, _)
SumOver(f, dom) ==
    IF dom = {} THEN 0
    ELSE LET v == CHOOSE x \in dom : TRUE
         IN  f[v] + SumOver(f, dom \ {v})

\* C18: create_summary(S) summarizes the entries of session S when S is given and
\* the whole log otherwise: total_steps is their number, the level counts add up
\* to it, and of no entries the summary is the zeroed one.
C18_SummaryScope ==
    ret.op = "create_summary" =>
        LET sum == ret.summary
        IN  /\ ret.raised = None
            /\ sum.total_steps = Len(Summarized)
            /\ Summarized # <<>> =>
                  /\ sum.keys = SummaryKeys
                  /\ SumOver(sum.level_distribution, DOMAIN sum.level_distribution)
                        = sum.total_steps
                  /\ sum.agents_involved = {Summarized[i].agent : i \in 1..Len(Summarized)}
            /\ Summarized = <<>> =>
                  /\ sum.keys = EmptySummaryKeys
                  /\ sum.agents_involved = {} /\ sum.tools_used = {}
                  /\ sum.average_confidence = 0
                  /\ sum.summary.text = "No reasoning steps recorded"

\* three entries held, the middle one of the caller's session: its summary
\* counts one step, at level error
C18_Witness ==
    /\ ret.op = "create_summary"
    /\ ret.arg = CallerSession
    /\ Len(entries) = 3
    /\ entries[2].metadata.session_id = CallerSession
    /\ entries[1].metadata.session_id = current_session_id
    /\ entries[3].metadata.session_id = current_session_id
    /\ ret.summary.total_steps = 1
    /\ DOMAIN ret.summary.level_distribution = {"error"}
    /\ ret.summary.level_distribution["error"] = 1

RECURSIVE NotOfSession(_, _)
NotOfSession(es, S) ==
    IF es = <<>> THEN <<>>
    ELSE IF Head(es).metadata.session_id = S THEN NotOfSession(Tail(es), S)
    ELSE <<Head(es)>> \o NotOfSession(Tail(es), S)

\* a clear_logs step removes the entries of the session asked for, or all of
\* them, and returns how many it removed
ClearRemoves ==
    /\ entries' = IF ret'.arg = None THEN <<>> ELSE NotOfSession(entries, ret'.arg)
    /\ ret'.count = Len(entries) - Len(entries')
    /\ ret'.raised = None

\* after the step the log file holds the entries that are left
ClearPersisted ==
    LET f == files'[log_file]
    IN  /\ f.kind = "object"
        /\ f.total_entries = Len(entries')
        /\ Len(f.entries) = Len(entries')
        /\ \A i \in 1..Len(entries') : Persisted(f.entries[i], entries'[i])

C20_NewSessionFrame ==
    [][/\ ret'.op = "start_new_session" =>
             /\ entries' = entries
             /\ files' = files
             /\ current_session_id' = ret'.step_id
       /\ (ret.op = "start_new_session" /\ ret'.op = "log_step") =>
             /\ Last(entries').metadata.session_id = ret.step_id
             /\ \A i \in 1..(Len(entries') - 1) :
                   \E j \in 1..Len(entries) : entries'[i] = entries[j]]_vars

\* C21: export_to_json(path, S) writes to path a document whose entries are the
\* entries of session S in order (the whole log without S) and whose
\* total_entries is their number; with a path other than log_file it leaves the
\* entries held and the logger's own log file as they were.
C21_ExportScopedAndFramed ==
    [][ret'.op = "export_to_json" =>
          LET sel == IF ret'.arg = None THEN entries ELSE OfSession(entries, ret'.arg)
              f == files'[ret'.path]
          IN  /\ entries' = entries
              /\ ret'.path # log_file => files'[log_file] = files[log_file]
              /\ ret'.raised = None =>
                    /\ f.kind = "object"
                    /\ f.total_entries = Len(sel)
                    /\ Len(f.entries) = Len(sel)
                    /\ \A i \in 1..Len(sel) : Persisted(f.entries[i], sel[i])]_vars

\* three entries held and saved, the caller's session exported to another path:
\* the export holds that one entry, the log file still the three
C21_Witness ==
    /\ ret.op = "export_to_json"
    /\ ret.raised = None
    /\ ret.path = OtherPath /\ log_file = LogPath
    /\ ret.arg = CallerSession
    /\ Len(entries) = 3
    /\ entries[2].metadata.session_id = CallerSession
    /\ entries[1].metadata.session_id # CallerSession
    /\ entries[3].metadata.session_id # CallerSession
    /\ files[OtherPath].total_entries = 1
    /\ Persisted(files[OtherPath].entries[1], entries[2])
    /\ Len(files[LogPath].entries) = 3

\* sub is what is left of s when some elements are taken out, the order kept
RECURSIVE IsSubsequence(_, _)
IsSubsequence(sub, s) ==
    IF sub = <<>> THEN TRUE
    ELSE IF s = <<>> THEN FALSE
    ELSE IF Head(sub) = Head(s) THEN IsSubsequence(Tail(sub), Tail(s))
    ELSE IsSubsequence(sub, Tail(s))

ReadOnlyOps ==
    {"get_entries", "get_session_entries", "get_reasoning_chain", "create_summary",
     "export_to_json", "start_new_session"}

\* C22: the entry sequence gains an entry only through log_step, at its end, and
\* loses entries only from its front inside log_step or through clear_logs; the
\* queries, the summary, the export and start_new_session leave it as it is, and
\* the entries that stay keep their fields and their order.
C22_EntryLifecycle ==
    [][/\ ret'.op \in ReadOnlyOps => entries' = entries
       /\ ret'.op = "log_step" =>
             /\ entries' # <<>>
             /\ Last(entries').step_id = ret'.step_id
             /\ \E k \in 0..Len(entries) :
                   SubSeq(entries', 1, Len(entries') - 1) = DropFirst(entries, k)
       /\ ret'.op = "clear_logs" => IsSubsequence(entries', entries)
       /\ Len(entries') > Len(entries) => ret'.op = "log_step"
       /\ Len(entries') < Len(entries) => ret'.op \in {"log_step", "clear_logs"}]_vars

\* a full logger, one of its two entries handed out by get_entries(limit=1): the
\* two are held as before
C22_Witness ==
    /\ ret.op = "get_entries"
    /\ ret.query.limit = [given |-> TRUE, value |-> 1]
    /\ Len(entries) = 2
    /\ entries[1].reasoning = "on topic"
    /\ entries[2].metadata.session_id = CallerSession
    /\ ret.list = <<entries[2]>>

\* C23: every entry held has a metadata mapping with the key session_id, made
\* by log_step or rebuilt from a file, so get_session_entries, create_summary(S)
\* and clear_logs(S) never fail on an entry.
C23_MetadataHasSessionId ==
    /\ \A i \in 1..Len(entries) :
          /\ entries[i].metadata.type = "dict"
          /\ entries[i].metadata.session_id # NoKey
    /\ ret.op \in {"get_session_entries", "create_summary", "clear_logs"} =>
          ret.raised = None

\* C24: over any sequence of log_step calls on one logger, the same agent logged
\* twice with no clock advance included, no two step_ids returned are equal and
\* no two entries held share a step_id.
C24_StepIdsUnique ==
    /\ \A i, j \in 1..Len(hist.logged) :
          i # j => hist.logged[i].step_id # hist.logged[j].step_id
    /\ \A i, j \in 1..Len(entries) : i # j => entries[i].step_id # entries[j].step_id

\* C25: every session id produced for a logger, at construction and by each
\* start_new_session, differs from the ids produced before it, however quickly
\* start_new_session is called.
C25_SessionIdsUnique ==
    [][(ret'.op = "start_new_session" /\ ret' # ret) =>
          /\ ret'.step_id # current_session_id
          /\ \A i \in 1..Len(entries) : entries[i].metadata.session_id # ret'.step_id]_vars

\* the log file holds exactly the entries held in memory, in order
FileHoldsLog(f, es) ==
    /\ f.kind = "object"
    /\ f.total_entries = Len(es)
    /\ [i \in 1..Len(f.entries) |-> f.entries[i].step_id]
          = [i \in 1..Len(es) |-> es[i].step_id]
    /\ \A i \in 1..Len(es) : Persisted(f.entries[i], es[i])

\* C27: when the save inside a log_step or clear_logs has failed and the save
\* inside the next log_step succeeds, the log file holds the complete sequence
\* held in memory, the entries whose own save failed included.
C27_SaveSelfHeals ==
    [][(/\ ret.op \in {"log_step", "clear_logs"}
        /\ ret.save \in {"failed_mid_write", "failed_before_write"}
        /\ ret'.op = "log_step" /\ ret'.save = "ok")
          => /\ FileHoldsLog(files'[log_file], entries')
             /\ (ret.op = "log_step" /\ Len(entries') >= 2) =>
                   \E i \in 1..Len(files'[log_file].entries) :
                      files'[log_file].entries[i].step_id = ret.step_id]_vars

\* after an I/O error in an earlier save, a log_step has written both entries
\* held, the one before it included
C27_Witness ==
    /\ ret.op = "log_step" /\ ret.save = "ok"
    /\ faults_left < MaxFaults
    /\ files[log_file].kind = "object"
    /\ Len(entries) = 2
    /\ entries[1].metadata.session_id = current_session_id
    /\ Len(files[log_file].entries) = 2
    /\ files[log_file].entries[1].step_id = entries[1].step_id

\* C29: a logger constructed with max_entries = 0 holds no entry, after loading
\* a non-empty log file and after any number of log_step calls.
C29_CapacityAtZero ==
    (max_entries = 0 /\ ret.op \in {"construct", "log_step"}) => Len(entries) = 0

\* C30: trim_to_limit(n), for every n >= 0 and every buffer, leaves at most n
\* messages, the most recent ones in order, and returns the removed older ones:
\* the returned list followed by the buffer left is the buffer before the call;
\* with n >= the buffer length nothing is removed and [] is returned.
C30_TrimToLimit ==
    [][ret'.op = "trim_to_limit" =>
          /\ Len(messages') <= ret'.count
          /\ ret'.list \o messages' = messages
          /\ ret'.count >= Len(messages) => (ret'.list = <<>> /\ messages' = messages)]_vars

\* the entries a step appended to the log
Appended(before, after) == SubSeq(after, Len(before) + 1, Len(after))

ToolNames(e) == [i \in 1..Len(e.tool_calls) |-> e.tool_calls[i].tool_name]

\* the phases of one start_research in the order the manager runs them
InPhaseOrder(new) ==
    LET n == Len(PlanSections)
    IN  /\ Len(new) = 2 * n + 6
        /\ new[1].agent = "Manager"
        /\ new[2].agent = "Planner" /\ new[3].agent = "Planner"
        /\ \A k \in 1..n :
              /\ new[2 * k + 2].agent = "Researcher"
              /\ new[2 * k + 2].input_prompt = "Research section: " \o PlanSections[k]
              /\ new[2 * k + 2].tool_calls = <<>>
              /\ new[2 * k + 3].agent = "Researcher"
              /\ new[2 * k + 3].input_prompt
                    = "Research completed for: " \o PlanSections[k]
              /\ ToolNames(new[2 * k + 3]) = <<"web_search", "academic_search">>
        /\ new[2 * n + 4].agent = "Writer" /\ new[2 * n + 5].agent = "Writer"
        /\ new[2 * n + 6].agent = "Manager"
        /\ \A i, j \in 1..Len(new) :
              i < j => /\ ~(new[i].agent = "Writer" /\ new[j].agent = "Researcher")
                       /\ ~(new[i].agent = "Researcher" /\ new[j].agent = "Planner")

\* C26: start_research logs the Manager start entry, the Planner's two entries,
\* for each plan section in plan order a Researcher start entry directly followed
\* by the section's completion entry with its web_search and academic_search tool
\* calls, the Writer's two entries and the Manager completion entry last; and it
\* always returns a result with a success flag and the session's summary, never
\* raising.
C26_StartResearchPhases ==
    [][(ret'.op = "start_research" /\ Len(entries') > Len(entries)) =>
          /\ InPhaseOrder(Appended(entries, entries'))
          /\ ret'.raised = None
          /\ ret'.success \in {"True", "False"}
          /\ ret'.summary.keys = SummaryKeys
          /\ ret'.summary.session_id = session_id']_vars

\* the 'entries' array of the log file is the log held in memory
LogFileIsLog ==
    /\ Len(files[log_file].entries) = Len(entries)
    /\ \A i \in 1..Len(entries) : Persisted(files[log_file].entries[i], entries[i])

\* C28: after any sequence of start_research, export_session_logs and save_logs
\* with its default filepath, no I/O failing, the log file's entries are the
\* complete sequence of entries held in memory, those of sessions other than the
\* manager's included.
C28_LogFileOnlyFullSave ==
    ret.op \in {"start_research", "export_to_json", "save_logs"} => LogFileIsLog

====
